---- MODULE Spec2Model ----
(***************************************************************************)
(* SURGE: ephemeral tokens (SURGE IDs) scanned through airport zones, and  *)
(* the anonymised per-zone congestion heatmap computed from the scans.     *)
(*                                                                         *)
(* State: the Redis key space (string keys surge:{id} with a TTL, list     *)
(* keys surge:{id}:scans without one), the in-memory _surge_store of       *)
(* storage.py, the wall clock, and the position of every /scan request     *)
(* that is being served.                                                   *)
(*                                                                         *)
(* Spec      every handler runs to completion in one step.                 *)
(* SpecConc  /scan is served by concurrent workers, one Redis command per  *)
(*           step (the handlers are plain def's: FastAPI runs them in a    *)
(*           thread pool, and the code takes no lock).                     *)
(*                                                                         *)
(* Time is in milliseconds (datetime has a finer resolution still).        *)
(* Averages and scores are kept exact as fractions of a second and         *)
(* reported in hundredths, as round(x, 2) reports them.                    *)
(***************************************************************************)
EXTENDS Integers, Sequences, FiniteSets, TLC

(* ------------------------------ bounds -------------------------------- *)
\* number of SURGE IDs uuid4() can hand out
MaxTokens == 2
\* number of handler calls (issue, scan, congestion) in one behaviour
MaxOps == 4
\* number of clock advances in one behaviour
MaxTicks == 2
\* number of concurrent /scan workers (SpecConc)
NumWorkers == 2

(* ------------------------- program constants -------------------------- *)
\* clock readings in one second (timedelta.total_seconds() is in seconds)
Second == 1000
\* config.py: SURGE_ID_TTL = timedelta(hours=1), in seconds
SURGE_ID_TTL == 3600
\* main.py: r.set(..., ex=3600)
REDIS_EX == 3600
\* congestion.py: SCAN_RATE_WINDOW_MINUTES = 5
SCAN_RATE_WINDOW_MINUTES == 5
\* congestion.py: if 0 < dwell < 7200
MAX_DWELL == 7200
\* congestion.py: CONGESTION_THRESHOLDS
LOW_MAX == 100
MEDIUM_MAX == 300

VALID_ZONES ==
  {"terminal_entry", "security", "customs", "boarding_gate", "transfer", "amenities"}

(* ------------------------------ inputs -------------------------------- *)
\* the uuid4 values
TokenIds == 1..MaxTokens
\* A requested surge_id string: <<t, k>> is str(uuid t) followed by k copies
\* of ":scans".  <<t, 0>> is the token's own identifier; requests carry
\* identifiers with no suffix or with one.
SurgeIds == TokenIds \X {0, 1}
Tok(t) == <<t, 0>>
\* zones a /scan request may carry: two configured ones and one that is not
ScanZones == {"security", "customs", "lounge"}
\* what the clock may advance by in one step: a millisecond, a millisecond
\* short of the scan-rate window, the lifetime of a token
Deltas == {1, 300 * Second - 1, 3600 * Second}
Workers == 1..NumWorkers

NoKey == -1
Idle == [pc |-> "idle"]
NoRecord == [id |-> 0, created_at |-> -1, expires_at |-> -1]

VARIABLES
  now,          \* the wall clock, milliseconds
  surge_key,    \* Redis string keys surge:{uuid}: the time the key expires at, or NoKey
  scans,        \* Redis list keys surge:{surge_id}:scans (no TTL): the raw entries
  surge_store,  \* storage._surge_store: uuid -> SurgeID
  response,     \* what the last completed handler returned
  nops,         \* handler calls so far
  nticks,       \* clock advances so far
  req           \* per worker: the /scan request it is serving and where it is

vars == <<now, surge_key, scans, surge_store, response, nops, nticks, req>>

(* --------------------------- serialisation ---------------------------- *)
\* datetime.isoformat / datetime.fromisoformat
isoformat(t) == <<"iso", t>>
IsIso(s) == Len(s) = 2 /\ s[1] = "iso"
fromisoformat(s) == s[2]
\* json.dumps / json.loads of a scan event
json_dumps(d) == <<"json", d>>
IsJson(raw) == Len(raw) = 2 /\ raw[1] = "json"
json_loads(raw) == raw[2]

(* ------------------------- the Redis commands ------------------------- *)
\* a store that drops the key one clock reading early
KeyAliveStrict(deadline, t) == deadline # NoKey /\ t < deadline

\* A string key is there until its time to live has run out (passive expiry).
KeyAlive(deadline, t) == deadline # NoKey /\ t <= deadline

\* r.exists(f"surge:{surge_id}"): the key of that name, of whatever type.
\* "surge:<uuid>" is the token's string key; "surge:<uuid>:scans..." is the
\* list that holds the scans of the surge_id one suffix shorter, and a Redis
\* list exists while it is not empty.
Exists(keys, lists, t, s) ==
  IF s[2] = 0 THEN KeyAlive(keys[s[1]], t)
  ELSE lists[<<s[1], s[2] - 1>>] # <<>>

\* r.lrange(scans_key, 0, -1)
LRange(lists, s) == lists[s]
\* r.delete(scans_key)
Delete(lists, s) == [lists EXCEPT ![s] = <<>>]
\* r.rpush(scans_key, raw)
RPush(lists, s, raw) == [lists EXCEPT ![s] = Append(@, raw)]

Init ==
  /\ now = 0
  /\ surge_key = [t \in TokenIds |-> NoKey]
  /\ scans = [s \in SurgeIds |-> <<>>]
  /\ surge_store = [t \in TokenIds |-> NoRecord]
  /\ response = [op |-> "none"]
  /\ nops = 0
  /\ nticks = 0
  /\ req = [w \in Workers |-> Idle]

\* time passes
Tick(d) ==
  /\ nticks < MaxTicks
  /\ now' = now + d
  /\ nticks' = nticks + 1
  /\ UNCHANGED <<surge_key, scans, surge_store, response, nops, req>>

(* ------------------------------ /issue -------------------------------- *)
\* storage.create_surge_id
create_surge_id(id, t) == [id |-> id, created_at |-> t, expires_at |-> t + SURGE_ID_TTL * Second]

\* an issue that also renews the keys already there
SetExRenewing(keys, id, t) ==
  [k \in DOMAIN keys |-> IF k = id \/ keys[k] # NoKey THEN t + REDIS_EX * Second ELSE keys[k]]

\* r.set(f"surge:{surge.id}", "active", ex=3600)
SetEx(keys, id, t) == [keys EXCEPT ![id] = t + REDIS_EX * Second]

Issued == {t \in TokenIds : surge_store[t] # NoRecord}

\* uuid4(): a value no earlier call has returned (the uuid values are
\* numbered in the order they are handed out)
uuid4(id) == id = Cardinality(Issued) + 1

\* GET /issue; id is the value uuid4() returns
issue_surge_id(id) ==
  /\ nops < MaxOps
  /\ uuid4(id)
  /\ LET surge == create_surge_id(id, now) IN
       /\ surge_store' = [surge_store EXCEPT ![id] = surge]
       /\ surge_key' = SetEx(surge_key, surge.id, now)
       /\ response' = [op |-> "issue", surge_id |-> Tok(surge.id), status |-> 200, at |-> now]
  /\ nops' = nops + 1
  /\ UNCHANGED <<now, scans, nticks, req>>

(* ------------------------------- /scan -------------------------------- *)
\* a check that takes any stored scan for a scan of the requested zone
AlreadyScannedAnyZone(raw_scans, zone) ==
  /\ raw_scans # <<>>
  /\ IsJson(raw_scans[Len(raw_scans)])

\* main.py 88-101: the last stored scan is in the requested zone.  A last
\* entry that is not JSON is passed over (except json.JSONDecodeError: pass).
AlreadyScanned(raw_scans, zone) ==
  /\ raw_scans # <<>>
  /\ IsJson(raw_scans[Len(raw_scans)])
  /\ json_loads(raw_scans[Len(raw_scans)]).zone = zone

\* main.py 76: the SURGE ID "exists"
TokenCheck(keys, lists, t, s) == Exists(keys, lists, t, s)

\* a zone check that lets every zone name through
ZoneCheckNone(zone) == zone \in ScanZones \cup VALID_ZONES

\* main.py 81
ZoneCheck(zone) == zone \in VALID_ZONES

\* main.py 108-111
ScanEvent(zone, t) == [zone |-> zone, timestamp |-> isoformat(t)]

\* a write that keeps what the list held
RecordScanAppend(lists, s, zone, t) == RPush(lists, s, json_dumps(ScanEvent(zone, t)))

\* main.py 104-113: what the handler writes once it has decided to record
RecordScan(lists, s, zone, t) == RPush(Delete(lists, s), s, json_dumps(ScanEvent(zone, t)))

\* the handler's four results; at and len_before are bookkeeping of the call:
\* the time of its token check and the length of the history it read
Resp404(s, zone, at) ==
  [op |-> "scan", surge_id |-> s, zone |-> zone, status |-> "404", at |-> at]
Resp400(s, zone, at) ==
  [op |-> "scan", surge_id |-> s, zone |-> zone, status |-> "400", at |-> at]
RespAlready(s, zone, at, raw_scans) ==
  [op |-> "scan", surge_id |-> s, zone |-> zone, status |-> "already_scanned", at |-> at,
   len_before |-> Len(raw_scans),
   current_timestamp |-> json_loads(raw_scans[Len(raw_scans)]).timestamp]
RespRecorded(s, zone, at, n, t) ==
  [op |-> "scan", surge_id |-> s, zone |-> zone, status |-> "scan recorded", at |-> at,
   len_before |-> n, timestamp |-> isoformat(t)]

\* POST /scan, served without interruption
scanqrcode(s, zone) ==
  /\ nops < MaxOps
  /\ nops' = nops + 1
  /\ IF ~TokenCheck(surge_key, scans, now, s)
       THEN response' = Resp404(s, zone, now) /\ UNCHANGED scans
     ELSE IF ~ZoneCheck(zone)
       THEN response' = Resp400(s, zone, now) /\ UNCHANGED scans
     ELSE LET raw_scans == LRange(scans, s) IN
       IF AlreadyScanned(raw_scans, zone)
         THEN response' = RespAlready(s, zone, now, raw_scans) /\ UNCHANGED scans
         ELSE /\ scans' = RecordScan(scans, s, zone, now)
              /\ response' = RespRecorded(s, zone, now, Len(raw_scans), now)
  /\ UNCHANGED <<now, surge_key, surge_store, nticks, req>>

(* --------------------- /scan, one command per step -------------------- *)
\* main.py 72-82: r.exists and the zone check
ScanBegin(w, s, zone) ==
  /\ req[w].pc = "idle"
  /\ nops < MaxOps
  /\ nops' = nops + 1
  /\ IF ~TokenCheck(surge_key, scans, now, s)
       THEN response' = Resp404(s, zone, now) /\ UNCHANGED req
     ELSE IF ~ZoneCheck(zone)
       THEN response' = Resp400(s, zone, now) /\ UNCHANGED req
     ELSE /\ req' = [req EXCEPT ![w] = [pc |-> "read", surge_id |-> s, zone |-> zone,
                                         at |-> now, len_before |-> 0, timestamp |-> 0]]
          /\ UNCHANGED response
  /\ UNCHANGED <<now, surge_key, scans, surge_store, nticks>>

\* main.py 85-101: r.lrange and the check of the current zone
ScanRead(w) ==
  /\ req[w].pc = "read"
  /\ LET raw_scans == LRange(scans, req[w].surge_id) IN
       IF AlreadyScanned(raw_scans, req[w].zone)
         THEN /\ response' = RespAlready(req[w].surge_id, req[w].zone, req[w].at, raw_scans)
              /\ req' = [req EXCEPT ![w] = Idle]
         ELSE /\ req' = [req EXCEPT ![w].pc = "delete", ![w].len_before = Len(raw_scans)]
              /\ UNCHANGED response
  /\ UNCHANGED <<now, surge_key, scans, surge_store, nops, nticks>>

\* main.py 104: r.delete
ScanDelete(w) ==
  /\ req[w].pc = "delete"
  /\ scans' = Delete(scans, req[w].surge_id)
  /\ req' = [req EXCEPT ![w].pc = "stamp"]
  /\ UNCHANGED <<now, surge_key, surge_store, response, nops, nticks>>

\* main.py 107: datetime.utcnow()
ScanStamp(w) ==
  /\ req[w].pc = "stamp"
  /\ req' = [req EXCEPT ![w].pc = "push", ![w].timestamp = now]
  /\ UNCHANGED <<now, surge_key, scans, surge_store, response, nops, nticks>>

\* main.py 113-120: r.rpush and the response
ScanPush(w) ==
  /\ req[w].pc = "push"
  /\ scans' = RPush(scans, req[w].surge_id,
                    json_dumps(ScanEvent(req[w].zone, req[w].timestamp)))
  /\ response' = RespRecorded(req[w].surge_id, req[w].zone, req[w].at,
                              req[w].len_before, req[w].timestamp)
  /\ req' = [req EXCEPT ![w] = Idle]
  /\ UNCHANGED <<now, surge_key, surge_store, nops, nticks>>

(* ---------------------------- /congestion ----------------------------- *)
\* an enumeration that stops after the first key
get_all_surge_ids_first(keys, t) ==
  {id \in TokenIds : KeyAlive(keys[id], t) /\ \A j \in TokenIds : KeyAlive(keys[j], t) => id <= j}

\* congestion.get_all_surge_ids: the surge:* keys without ":scans" in them
get_all_surge_ids(keys, t) == {id \in TokenIds : KeyAlive(keys[id], t)}

\* congestion.py 57-64: an entry that parses; the others are skipped
Parsable(raw) ==
  /\ IsJson(raw)
  /\ "timestamp" \in DOMAIN json_loads(raw)
  /\ IsIso(json_loads(raw).timestamp)

ParseScan(raw) ==
  [json_loads(raw) EXCEPT !.timestamp = fromisoformat(json_loads(raw).timestamp)]

RECURSIVE ParseScans(_)
ParseScans(raws) ==
  IF raws = <<>> THEN <<>>
  ELSE IF Parsable(Head(raws)) THEN <<ParseScan(Head(raws))>> \o ParseScans(Tail(raws))
  ELSE ParseScans(Tail(raws))

\* list.sort(key=timestamp): stable
RECURSIVE InsertByTimestamp(_, _)
InsertByTimestamp(sorted, e) ==
  IF sorted = <<>> THEN <<e>>
  ELSE IF sorted[Len(sorted)].timestamp <= e.timestamp THEN Append(sorted, e)
  ELSE Append(InsertByTimestamp(SubSeq(sorted, 1, Len(sorted) - 1), e), sorted[Len(sorted)])

RECURSIVE SortByTimestamp(_)
SortByTimestamp(evs) ==
  IF evs = <<>> THEN <<>>
  ELSE InsertByTimestamp(SortByTimestamp(SubSeq(evs, 1, Len(evs) - 1)), evs[Len(evs)])

\* congestion.get_scans_for_surge_id
get_scans_for_surge_id(lists, id) == SortByTimestamp(ParseScans(LRange(lists, Tok(id))))

\* a filter that keeps a dwell of nothing and a dwell of two hours
DwellOkInclusive(dwell) == 0 <= dwell /\ dwell <= MAX_DWELL * Second

\* congestion.py 93-96: the dwell times that are kept (dwell in clock readings)
DwellOk(dwell) == 0 < dwell /\ dwell < MAX_DWELL * Second

\* congestion.compute_dwell_times, as the list of <<zone, dwell>> it keeps
RECURSIVE compute_dwell_times(_)
compute_dwell_times(evs) ==
  IF Len(evs) < 2 THEN <<>>
  ELSE LET dwell == evs[2].timestamp - evs[1].timestamp IN
       (IF DwellOk(dwell) THEN <<(<<evs[1].zone, dwell>>)>> ELSE <<>>)
         \o compute_dwell_times(Tail(evs))

\* congestion.py 184-190: the dwell times of all SURGE IDs, in the order the
\* identifiers are enumerated
RECURSIVE AllDwellTimes(_, _)
AllDwellTimes(lists, ids) ==
  IF ids = {} THEN <<>>
  ELSE LET id == CHOOSE i \in ids : \A j \in ids : i <= j IN
       compute_dwell_times(get_scans_for_surge_id(lists, id))
         \o AllDwellTimes(lists, ids \ {id})

RECURSIVE SumDwell(_, _)
SumDwell(dwells, zone) ==
  IF dwells = <<>> THEN 0
  ELSE (IF Head(dwells)[1] = zone THEN Head(dwells)[2] ELSE 0) + SumDwell(Tail(dwells), zone)

CountDwell(dwells, zone) == Len(SelectSeq(dwells, LAMBDA p : p[1] = zone))

\* congestion.aggregate_dwell_by_zone: sum(times) / len(times) as a fraction
\* of a second
DwellZones(dwells) == {dwells[i][1] : i \in 1..Len(dwells)}
avg_dwell(dwells, zone) ==
  IF zone \in DwellZones(dwells)
    THEN [num |-> SumDwell(dwells, zone), den |-> CountDwell(dwells, zone) * Second]
    ELSE [num |-> 0, den |-> 1]

\* congestion.py 135: a scan counts when it is not older than the cutoff
InWindow(timestamp, t) == timestamp >= t - SCAN_RATE_WINDOW_MINUTES * 60 * Second

\* congestion.compute_scan_rate, for one zone
RECURSIVE compute_scan_rate(_, _, _, _)
compute_scan_rate(lists, ids, t, zone) ==
  IF ids = {} THEN 0
  ELSE LET id == CHOOSE i \in ids : \A j \in ids : i <= j
           evs == get_scans_for_surge_id(lists, id)
       IN Len(SelectSeq(evs, LAMBDA e : InWindow(e.timestamp, t) /\ e.zone = zone))
            + compute_scan_rate(lists, ids \ {id}, t, zone)

\* the zones with a scan in some enumerated history
RateZones(lists, ids, t) ==
  UNION {{get_scans_for_surge_id(lists, id)[i].zone :
            i \in {j \in 1..Len(get_scans_for_surge_id(lists, id)) :
                     InWindow(get_scans_for_surge_id(lists, id)[j].timestamp, t)}} : id \in ids}

\* a score that divides the average by the scan rate
calculate_congestion_score_div(scan_rate, avg) ==
  [num |-> avg.num, den |-> avg.den * (IF scan_rate = 0 THEN 1 ELSE scan_rate)]

\* a score that adds its two factors
calculate_congestion_score_sum(scan_rate, avg) ==
  [num |-> scan_rate * avg.den + avg.num, den |-> avg.den]

\* congestion.calculate_congestion_score: scan_rate * avg_dwell_time
calculate_congestion_score(scan_rate, avg) == [num |-> scan_rate * avg.num, den |-> avg.den]

\* a classifier whose thresholds are inclusive
classify_congestion_inclusive(score) ==
  IF score.num <= LOW_MAX * score.den THEN "LOW"
  ELSE IF score.num <= MEDIUM_MAX * score.den THEN "MEDIUM"
  ELSE "HIGH"

\* congestion.classify_congestion
classify_congestion(score) ==
  IF score.num < LOW_MAX * score.den THEN "LOW"
  ELSE IF score.num < MEDIUM_MAX * score.den THEN "MEDIUM"
  ELSE "HIGH"

\* round(x, 2), in hundredths; a tie goes to the even neighbour
Round2(x) ==
  LET q == (100 * x.num) \div x.den
      r == (100 * x.num) % x.den
  IN IF 2 * r < x.den THEN q
     ELSE IF 2 * r > x.den THEN q + 1
     ELSE IF q % 2 = 0 THEN q ELSE q + 1

\* the zone universe without the configured zones
AllZonesSeen(dwells, lists, ids, t) == DwellZones(dwells) \cup RateZones(lists, ids, t)

\* congestion.py 198-203
AllZones(dwells, lists, ids, t) == (DwellZones(dwells) \cup RateZones(lists, ids, t)) \cup VALID_ZONES

\* congestion.py 211-219: the entry built from a zone's two aggregates
ZoneEntry(scan_count, avg) ==
  LET score == calculate_congestion_score(scan_count, avg)
  IN [congestion_level |-> classify_congestion(score),
      congestion_score |-> Round2(score),
      avg_dwell_time_seconds |-> Round2(avg),
      scan_count_last_5min |-> scan_count]

\* congestion.py 207-219: the entry of one zone
ZoneData(dwells, lists, ids, t, zone) ==
  ZoneEntry(compute_scan_rate(lists, ids, t, zone), avg_dwell(dwells, zone))

\* congestion.py 59-63: json.loads gave something that is not an object, so
\* scan["timestamp"] raises a TypeError, which the except clause does not name
LoadRaises(raw) == IsJson(raw) /\ "not_object" \in DOMAIN json_loads(raw)

\* congestion.py 88: scans[i]["zone"] of an event that has a successor
DwellRaises(evs) == \E i \in 1..(Len(evs) - 1) : "zone" \notin DOMAIN evs[i]

\* congestion.py 135-136: scan["zone"] of an event inside the window
RateRaises(evs, t) ==
  \E i \in 1..Len(evs) : InWindow(evs[i].timestamp, t) /\ "zone" \notin DOMAIN evs[i]

\* get_zone_congestion ends in an exception nobody catches
get_zone_congestion_raises(keys, lists, t) ==
  \E id \in get_all_surge_ids(keys, t) :
    \/ \E i \in 1..Len(LRange(lists, Tok(id))) : LoadRaises(LRange(lists, Tok(id))[i])
    \/ DwellRaises(get_scans_for_surge_id(lists, id))
    \/ RateRaises(get_scans_for_surge_id(lists, id), t)

\* congestion.get_zone_congestion over one state of the store
get_zone_congestion(keys, lists, t) ==
  LET surge_ids == get_all_surge_ids(keys, t)
      dwells == AllDwellTimes(lists, surge_ids)
  IN [zones |-> [z \in AllZones(dwells, lists, surge_ids, t) |->
                   ZoneData(dwells, lists, surge_ids, t, z)],
      computed_at |-> isoformat(t),
      window_minutes |-> SCAN_RATE_WINDOW_MINUTES]

\* GET /congestion
get_zone_heatmap ==
  /\ nops < MaxOps
  /\ nops' = nops + 1
  /\ response' = IF get_zone_congestion_raises(surge_key, scans, now)
                    THEN [op |-> "congestion_error", at |-> now, status |-> "500"]
                    ELSE [op |-> "congestion", at |-> now,
                          body |-> get_zone_congestion(surge_key, scans, now)]
  /\ UNCHANGED <<now, surge_key, scans, surge_store, nticks, req>>

(* --------------------------- specifications --------------------------- *)
Next ==
  \/ \E d \in Deltas : Tick(d)
  \/ \E id \in TokenIds : issue_surge_id(id)
  \/ \E s \in SurgeIds, zone \in ScanZones : scanqrcode(s, zone)
  \/ get_zone_heatmap

Spec == Init /\ [][Next]_vars

NextConc ==
  \/ \E d \in Deltas : Tick(d)
  \/ \E id \in TokenIds : issue_surge_id(id)
  \/ \E w \in Workers, s \in SurgeIds, zone \in ScanZones : ScanBegin(w, s, zone)
  \/ \E w \in Workers : ScanRead(w)
  \/ \E w \in Workers : ScanDelete(w)
  \/ \E w \in Workers : ScanStamp(w)
  \/ \E w \in Workers : ScanPush(w)
  \/ get_zone_heatmap

SpecConc == Init /\ [][NextConc]_vars

(* ------------------ /congestion, one pass per step -------------------- *)
\* congestion.py 181-193: the SCAN of the token keys and the first pass over
\* the histories (dwell times); dwell_read is the store as that pass read it
ComputeDwell(w) ==
  /\ req[w].pc = "idle"
  /\ nops < MaxOps
  /\ nops' = nops + 1
  /\ req' = [req EXCEPT ![w] = [pc |-> "cutoff",
                                 surge_ids |-> get_all_surge_ids(surge_key, now),
                                 dwell_read |-> scans]]
  /\ UNCHANGED <<now, surge_key, scans, surge_store, response, nticks>>

\* congestion.py 129: cutoff_time = datetime.utcnow() - timedelta(...)
ComputeCutoff(w) ==
  /\ req[w].pc = "cutoff"
  /\ req' = [req EXCEPT ![w] = [pc |-> "rate", surge_ids |-> req[w].surge_ids,
                                 dwell_read |-> req[w].dwell_read, cutoff_at |-> now]]
  /\ UNCHANGED <<now, surge_key, scans, surge_store, response, nops, nticks>>

\* congestion.py 132-136 and 198-225: the second pass over the histories
\* (scan rates) and the result; rate_read is the store as this pass reads it
ComputeRate(w) ==
  /\ req[w].pc = "rate"
  /\ LET surge_ids == req[w].surge_ids
         dwells == AllDwellTimes(req[w].dwell_read, surge_ids)
         t == req[w].cutoff_at
     IN response' =
          [op |-> "congestion_passes", at |-> now, cutoff_at |-> t,
           surge_ids |-> surge_ids,
           dwell_read |-> req[w].dwell_read, rate_read |-> scans,
           body |-> [zones |-> [z \in AllZones(dwells, scans, surge_ids, t) |->
                                  ZoneData(dwells, scans, surge_ids, t, z)],
                     computed_at |-> isoformat(now),
                     window_minutes |-> SCAN_RATE_WINDOW_MINUTES]]
  /\ req' = [req EXCEPT ![w] = Idle]
  /\ UNCHANGED <<now, surge_key, scans, surge_store, nops, nticks>>

\* the service with its requests interleaved command by command
NextRead ==
  \/ \E d \in Deltas : Tick(d)
  \/ \E id \in TokenIds : issue_surge_id(id)
  \/ \E w \in Workers, s \in SurgeIds, zone \in ScanZones : ScanBegin(w, s, zone)
  \/ \E w \in Workers : ScanRead(w)
  \/ \E w \in Workers : ScanDelete(w)
  \/ \E w \in Workers : ScanStamp(w)
  \/ \E w \in Workers : ScanPush(w)
  \/ \E w \in Workers : ComputeDwell(w)
  \/ \E w \in Workers : ComputeCutoff(w)
  \/ \E w \in Workers : ComputeRate(w)

SpecRead == Init /\ [][NextRead]_vars

(* ------------------- the aggregation over a given store --------------- *)
\* Stores the concurrent service can be in when /congestion is called: every
\* token issued, alive or expired, with MaxHistory stored scans at most over
\* all the tokens (two scans of one token that overlap leave more than one
\* entry in its list).
MaxHistory == 3
\* the query comes 300 s, or a millisecond more, after the earlier scan time
AggClock == {4000 * Second, 4000 * Second + 1}
AggDeadlines == {3900 * Second, 7000 * Second}
\* the two scan times are 99.996 s apart
AggTimes == {3700 * Second, 3800 * Second - 4}
AggScans ==
  {json_dumps(ScanEvent(z, t)) : z \in {"security", "customs"}, t \in AggTimes}
\* the rpush'es that built the store, in the order they were served
AggLogs == UNION {[1..n -> TokenIds \X AggScans] : n \in 0..MaxHistory}

RECURSIVE HistoryOf(_, _)
HistoryOf(log, t) ==
  IF log = <<>> THEN <<>>
  ELSE (IF Head(log)[1] = t THEN <<Head(log)[2]>> ELSE <<>>) \o HistoryOf(Tail(log), t)

InitAgg ==
  /\ now \in AggClock
  /\ surge_key \in [TokenIds -> AggDeadlines]
  /\ surge_store = [t \in TokenIds |->
                      [id |-> t, created_at |-> surge_key[t] - REDIS_EX * Second,
                       expires_at |-> surge_key[t] - REDIS_EX * Second + SURGE_ID_TTL * Second]]
  /\ \E log \in AggLogs :
       scans = [s \in SurgeIds |-> IF s[2] = 0 THEN HistoryOf(log, s[1]) ELSE <<>>]
  /\ response = [op |-> "none"]
  /\ nops = 0
  /\ nticks = 0
  /\ req = [w \in Workers |-> Idle]

\* one query of the given store
NextAgg == response.op = "none" /\ get_zone_heatmap

SpecAgg == InitAgg /\ [][NextAgg]_vars

(* ---------------- the dwell times of given histories ------------------ *)
\* Histories handed to compute_dwell_times: scans at the same reading, a
\* millisecond apart, 7199.999 s apart and two hours apart (the timestamps
\* are wall-clock readings), MaxHistory scans at most over all the tokens,
\* every token active.
DwellTimes == {0, 1, MAX_DWELL * Second}
DwellScans ==
  {json_dumps(ScanEvent(z, t)) : z \in {"security", "customs"}, t \in DwellTimes}
DwellLogs == UNION {[1..n -> TokenIds \X DwellScans] : n \in 0..MaxHistory}

InitDwell ==
  /\ now = MAX_DWELL * Second
  /\ surge_key = [t \in TokenIds |-> now + REDIS_EX * Second]
  /\ surge_store = [t \in TokenIds |-> create_surge_id(t, now)]
  /\ \E log \in DwellLogs :
       scans = [s \in SurgeIds |-> IF s[2] = 0 THEN HistoryOf(log, s[1]) ELSE <<>>]
  /\ response = [op |-> "none"]
  /\ nops = 0
  /\ nticks = 0
  /\ req = [w \in Workers |-> Idle]

\* congestion.py 181-193: the dwell times kept and the average of every zone
AggregateDwell ==
  /\ response.op = "none"
  /\ LET surge_ids == get_all_surge_ids(surge_key, now)
         dwells == AllDwellTimes(scans, surge_ids)
     IN response' = [op |-> "dwell", dwell_times |-> dwells,
                     avg_dwell_by_zone |-> [z \in VALID_ZONES |-> avg_dwell(dwells, z)]]
  /\ UNCHANGED <<now, surge_key, scans, surge_store, nops, nticks, req>>

NextDwell == AggregateDwell

SpecDwell == InitDwell /\ [][NextDwell]_vars

(* ------------- the aggregation over a store with bad entries ---------- *)
\* Stored entries: two that scanqrcode writes, and one of each kind it does
\* not write: text that is not JSON, JSON that is not an object, an object
\* without a zone, an object without a timestamp, a timestamp that is not
\* an ISO date.
RawTimes == {3700 * Second, 3800 * Second}
RawEntries ==
  {json_dumps(ScanEvent("security", 3700 * Second)),
   json_dumps(ScanEvent("customs", 3800 * Second)),
   <<"text", "{">>,
   json_dumps([not_object |-> TRUE]),
   json_dumps([timestamp |-> isoformat(3000 * Second)]),
   json_dumps([zone |-> "security"]),
   json_dumps([zone |-> "security", timestamp |-> <<"text", "yesterday">>])}
RawLogs == UNION {[1..n -> TokenIds \X RawEntries] : n \in 0..MaxHistory}

InitRaw ==
  /\ now = 4000 * Second
  /\ surge_key = [t \in TokenIds |-> 7000 * Second]
  /\ surge_store = [t \in TokenIds |->
                      [id |-> t, created_at |-> surge_key[t] - REDIS_EX * Second,
                       expires_at |-> surge_key[t] - REDIS_EX * Second + SURGE_ID_TTL * Second]]
  /\ \E log \in RawLogs :
       scans = [s \in SurgeIds |-> IF s[2] = 0 THEN HistoryOf(log, s[1]) ELSE <<>>]
  /\ response = [op |-> "none"]
  /\ nops = 0
  /\ nticks = 0
  /\ req = [w \in Workers |-> Idle]

NextRaw == response.op = "none" /\ get_zone_heatmap

SpecRaw == InitRaw /\ [][NextRaw]_vars

(* -------------- the entry of a zone over given aggregates ------------- *)
\* largest scan count of a zone in the window
MaxCount == 4
\* average dwell times, in seconds: none, a millisecond, 33.332, 50, 99.996,
\* 100, 150 and 300
AvgSamples ==
  {[num |-> n, den |-> Second] : n \in {0, 1, 33332, 50000, 99996, 100000, 150000, 300000}}

\* a zone's average dwell and two scan counts it may have in the window
InitFn ==
  /\ now = 0
  /\ surge_key = [t \in TokenIds |-> NoKey]
  /\ scans = [s \in SurgeIds |-> <<>>]
  /\ surge_store = [t \in TokenIds |-> NoRecord]
  /\ \E c1 \in 0..MaxCount, c2 \in 0..MaxCount, avg \in AvgSamples :
       response = [op |-> "aggregates", c1 |-> c1, c2 |-> c2, avg |-> avg]
  /\ nops = 0
  /\ nticks = 0
  /\ req = [w \in Workers |-> Idle]

\* congestion.py 208-219 for the two scan counts: the score, and the entry
BuildEntries ==
  /\ response.op = "aggregates"
  /\ response' = [op |-> "entries", c1 |-> response.c1, c2 |-> response.c2,
                  avg |-> response.avg,
                  score1 |-> calculate_congestion_score(response.c1, response.avg),
                  score2 |-> calculate_congestion_score(response.c2, response.avg),
                  entry1 |-> ZoneEntry(response.c1, response.avg),
                  entry2 |-> ZoneEntry(response.c2, response.avg)]
  /\ UNCHANGED <<now, surge_key, scans, surge_store, nops, nticks, req>>

NextFn == BuildEntries

SpecFn == InitFn /\ [][NextFn]_vars

(* ============================== claims ================================ *)
IsPrefix(a, b) == Len(a) <= Len(b) /\ SubSeq(b, 1, Len(a)) = a

\* the step is a call of POST /scan served by the uninterrupted handler
IsScanCall == nops' = nops + 1 /\ response'.op = "scan"
\* the step is a call of GET /issue
IsIssueCall == nops' = nops + 1 /\ response'.op = "issue"

\* token id is active at time t: issued and its key not yet expired
ActiveToken(s, t) == s[2] = 0 /\ KeyAlive(surge_key[s[1]], t)

\* the zone of a stored entry
ZoneOf(raw) == json_loads(raw).zone

\* C1: while a token is active its history only grows at the end: every step
\* keeps the history as a prefix of the new one, and a scan that returns
\* "scan recorded" appends exactly its event {zone, now} to what was there.
C1_AppendOnly ==
  [][\A t \in TokenIds :
       (ActiveToken(Tok(t), now) /\ KeyAlive(surge_key'[t], now')) =>
         /\ IsPrefix(scans[Tok(t)], scans'[Tok(t)])
         /\ (IsScanCall /\ response'.surge_id = Tok(t) /\ response'.status = "scan recorded") =>
              scans'[Tok(t)] = Append(scans[Tok(t)], json_dumps(ScanEvent(response'.zone, now)))
    ]_vars

\* C2: when a scan of zone z of an active token returned "scan recorded" and
\* the next call is a scan of the same token and zone, that call returns
\* "already_scanned" and the history is exactly one entry longer than before
\* the first of the two scans.
C2_Idempotence ==
  [][\A t \in TokenIds :
       (/\ response.op = "scan"
        /\ response.surge_id = Tok(t)
        /\ response.status = "scan recorded"
        /\ IsScanCall
        /\ response'.surge_id = Tok(t)
        /\ response'.zone = response.zone
        /\ ActiveToken(Tok(t), now)) =>
         /\ response'.status = "already_scanned"
         /\ Len(scans'[Tok(t)]) = response.len_before + 1
    ]_vars

\* C3: under concurrent scans no history of a token ever holds two adjacent
\* events with the same zone (what a serial order of the scans, with its
\* check of the last zone, can never produce).
C3_NoDuplicateZoneRace ==
  \A t \in TokenIds : \A i \in 1..(Len(scans[Tok(t)]) - 1) :
    ZoneOf(scans[Tok(t)][i]) # ZoneOf(scans[Tok(t)][i + 1])

C5_NoHistoryOutlivesToken ==
  \A t \in Issued : ~KeyAlive(surge_key[t], now) => scans[Tok(t)] = <<>>

\* C6: a scan with an identifier that is not an active token returns 404
\* whatever the zone; a scan of an active token with a zone that is not
\* configured returns 400; both leave the token keys and every scan list as
\* they were.
C6_ScanRejection ==
  [][IsScanCall =>
       /\ ~ActiveToken(response'.surge_id, now) =>
            (response'.status = "404" /\ UNCHANGED <<surge_key, scans, surge_store>>)
       /\ (ActiveToken(response'.surge_id, now) /\ response'.zone \notin VALID_ZONES) =>
            (response'.status = "400" /\ UNCHANGED <<surge_key, scans, surge_store>>)
    ]_vars

\* C7: for an active token and a configured zone, the scan returns
\* "already_scanned" exactly when the history is not empty and its last event
\* is in the scanned zone; it then returns that event's timestamp and leaves
\* the history as it was; in every other case it returns "scan recorded".
C7_Deduplication ==
  [][\A t \in TokenIds :
       (/\ IsScanCall
        /\ response'.surge_id = Tok(t)
        /\ ActiveToken(Tok(t), now)
        /\ response'.zone \in VALID_ZONES) =>
         LET history == scans[Tok(t)]
             same == history # <<>> /\ ZoneOf(history[Len(history)]) = response'.zone
         IN /\ (response'.status = "already_scanned") <=> same
            /\ same => /\ response'.current_timestamp
                            = json_loads(history[Len(history)]).timestamp
                       /\ scans' = scans
            /\ ~same => response'.status = "scan recorded"
    ]_vars

\* a rescan of the zone the token is in was answered "already_scanned"
C7_Witness ==
  /\ response.op = "scan"
  /\ response.status = "already_scanned"
  /\ ActiveToken(response.surge_id, response.at)
  /\ ZoneOf(scans[response.surge_id][1]) = response.zone

\* C8: in every reachable state the heatmap has an entry for every configured
\* zone, and every heatmap returned had one.
C8_FullZoneCoverage ==
  /\ VALID_ZONES \subseteq DOMAIN get_zone_congestion(surge_key, scans, now).zones
  /\ response.op = "congestion" => VALID_ZONES \subseteq DOMAIN response.body.zones

\* a heatmap was returned while no token was active
C8_Witness ==
  /\ response.op = "congestion"
  /\ get_all_surge_ids(surge_key, response.at) = {}
  /\ DOMAIN response.body.zones = VALID_ZONES

\* the store with the token identifiers renamed by the permutation pi
RenameKeys(pi) == [t \in TokenIds |-> surge_key[pi[t]]]
RenameLists(pi) == [s \in SurgeIds |-> scans[<<pi[s[1]], s[2]>>]]

ZoneFields ==
  {"congestion_level", "congestion_score", "avg_dwell_time_seconds", "scan_count_last_5min"}

\* C9: the heatmap carries zone data only (no field for an identifier), and
\* renaming the token identifiers of the store leaves every zone's entry the
\* same.
C9_Anonymity ==
  LET out == get_zone_congestion(surge_key, scans, now) IN
    /\ DOMAIN out = {"zones", "computed_at", "window_minutes"}
    /\ \A z \in DOMAIN out.zones : DOMAIN out.zones[z] = ZoneFields
    /\ \A pi \in Permutations(TokenIds) :
         get_zone_congestion(RenameKeys(pi), RenameLists(pi), now).zones = out.zones

\* a heatmap was returned over a store in which an active and an expired
\* token hold different histories, one of them with a dwell time
C9_Witness ==
  /\ response.op = "congestion"
  /\ \E t, u \in TokenIds :
       /\ KeyAlive(surge_key[t], now) /\ ~KeyAlive(surge_key[u], now)
       /\ Len(scans[Tok(t)]) = 2 /\ Len(scans[Tok(u)]) = 1
  /\ \E z \in VALID_ZONES : response.body.zones[z].avg_dwell_time_seconds > 0

\* C10: an issue creates a token that was not issued before, with
\* expires_at = created_at + 1 hour, whose key is in the store and passes the
\* scan's token check at once, and changes no other token and no history.
C10_Issue ==
  [][IsIssueCall =>
       LET id == response'.surge_id[1] IN
         /\ id \notin Issued
         /\ surge_key[id] = NoKey
         /\ surge_store'[id].created_at = now
         /\ surge_store'[id].expires_at = surge_store'[id].created_at + 60 * 60 * 1000
         /\ TokenCheck(surge_key', scans', now', Tok(id))
         /\ \A other \in TokenIds \ {id} :
              /\ surge_key'[other] = surge_key[other]
              /\ surge_store'[other] = surge_store[other]
         /\ scans' = scans
    ]_vars

\* a second token was issued while the first was still active
C10_Witness ==
  /\ response.op = "issue"
  /\ response.surge_id = Tok(2)
  /\ KeyAlive(surge_key[1], now)
  /\ surge_key[1] < surge_key[2]

Abs(x) == IF x < 0 THEN -x ELSE x

ScoreSamples ==
  {[num |-> n, den |-> 1000] :
     n \in {0, 1, 99994, 99995, 99999, 100000, 100001, 299995, 299999, 300000, 300001, 900000}}
  \cup {[num |-> n, den |-> 1] : n \in {0, 99, 100, 101, 299, 300, 301}}

\* the level the thresholds 100 and 300 give the score num/den
LevelOf(num, den) ==
  IF num < 100 * den THEN "LOW" ELSE IF num < 300 * den THEN "MEDIUM" ELSE "HIGH"

\* classify returns one of the three levels, by the thresholds 100 and 300
ClassifyTable ==
  \A x \in ScoreSamples :
    /\ classify_congestion(x) \in {"LOW", "MEDIUM", "HIGH"}
    /\ classify_congestion(x) = LevelOf(x.num, x.den)

Rank(level) == CASE level = "LOW" -> 0 [] level = "MEDIUM" -> 1 [] level = "HIGH" -> 2

\* x <= y for two fractions with positive denominators
FracLeq(x, y) == x.num * y.den <= y.num * x.den

\* C13: for a fixed average dwell and scan counts c1 <= c2 the score of c1 is
\* not above the score of c2 and its level is not above the level of c2; when
\* the count or the average is 0 the score is 0 and the level is Low.
C13_Monotonicity ==
  response.op = "entries" =>
    /\ response.c1 <= response.c2 =>
         /\ FracLeq(response.score1, response.score2)
         /\ Rank(response.entry1.congestion_level) <= Rank(response.entry2.congestion_level)
         /\ response.entry1.congestion_score <= response.entry2.congestion_score
    /\ (response.c1 = 0 \/ response.avg.num = 0) =>
         /\ response.score1.num = 0
         /\ response.entry1.congestion_score = 0
         /\ response.entry1.congestion_level = "LOW"

\* with an average dwell of 99.996 s one scan is Low and four scans are High
C13_Witness ==
  /\ response.op = "entries"
  /\ response.c1 = 1 /\ response.c2 = 4
  /\ response.avg.num = 99996
  /\ response.entry1.congestion_level = "LOW"
  /\ response.entry2.congestion_level = "HIGH"

\* C14: the zone of every stored scan event, in every scans list, is one of
\* the configured zones.
C14_ZoneMembership ==
  \A s \in SurgeIds : \A i \in 1..Len(scans[s]) : ZoneOf(scans[s][i]) \in VALID_ZONES

\* a scan with a zone that is not configured was refused for a token that
\* has a recorded scan
C14_Witness ==
  /\ response.op = "scan"
  /\ response.status = "400"
  /\ response.zone \notin VALID_ZONES
  /\ scans[response.surge_id] # <<>>

\* the adjacent pairs <<token, i>> of the timestamp-ordered histories whose
\* first event is in the zone and whose duration is strictly between 0 and
\* 7200 s
AttributedPairs(zone) ==
  {p \in TokenIds \X (1..MaxHistory) :
     LET h == get_scans_for_surge_id(scans, p[1]) IN
       /\ p[2] < Len(h)
       /\ h[p[2]].zone = zone
       /\ 0 < h[p[2] + 1].timestamp - h[p[2]].timestamp
       /\ h[p[2] + 1].timestamp - h[p[2]].timestamp < 7200 * 1000}

PairDuration(p) ==
  LET h == get_scans_for_surge_id(scans, p[1]) IN h[p[2] + 1].timestamp - h[p[2]].timestamp

RECURSIVE SumDurations(_)
SumDurations(pairs) ==
  IF pairs = {} THEN 0
  ELSE LET p == CHOOSE q \in pairs : TRUE IN PairDuration(p) + SumDurations(pairs \ {p})

\* C15: the durations kept for a zone are those of the adjacent pairs that
\* start in the zone and last more than 0 and less than 7200 s, one each and
\* unchanged (the last event of a history starts no pair); the zone's average
\* is their sum over their number, in seconds, and 0 when there is none.
C15_DwellExtraction ==
  response.op = "dwell" =>
    \A z \in VALID_ZONES :
      LET pairs == AttributedPairs(z)
          kept == SelectSeq(response.dwell_times, LAMBDA d : d[1] = z)
          avg == response.avg_dwell_by_zone[z]
      IN /\ Len(kept) = Cardinality(pairs)
         /\ \A i \in 1..Len(kept) :
              /\ 0 < kept[i][2] /\ kept[i][2] < 7200 * 1000
              /\ \E p \in pairs : PairDuration(p) = kept[i][2]
         /\ pairs = {} => avg.num = 0
         /\ pairs # {} =>
              /\ avg.den % 1000 = 0
              /\ avg.num * Cardinality(pairs) = SumDurations(pairs) * (avg.den \div 1000)

\* a history with two scans at the same reading and a third one two hours
\* later: neither duration is kept, and the zones' averages are 0
C15_Witness ==
  /\ response.op = "dwell"
  /\ response.dwell_times = <<>>
  /\ \E t \in TokenIds :
       LET h == get_scans_for_surge_id(scans, t) IN
         /\ Len(h) = 3
         /\ h[2].timestamp - h[1].timestamp = 0
         /\ h[3].timestamp - h[2].timestamp = 7200 * 1000

\* the stored events <<token, i>> of a zone, in the histories the scan-rate
\* pass read, whose timestamp lies in [t - 5 minutes, t]
EventsInWindow(lists, ids, t, zone) ==
  {p \in ids \X (1..MaxOps) :
     /\ p[2] <= Len(lists[Tok(p[1])])
     /\ ZoneOf(lists[Tok(p[1])][p[2]]) = zone
     /\ t - 5 * 60 * 1000 <= fromisoformat(json_loads(lists[Tok(p[1])][p[2]]).timestamp)
     /\ fromisoformat(json_loads(lists[Tok(p[1])][p[2]]).timestamp) <= t}

\* C16: the scan count a compute reports for a zone is the number of that
\* zone's events, over the histories of the active tokens, stamped no earlier
\* than five minutes before the compute's clock reading and no later than it.
C16_ScanRateWindow ==
  response.op = "congestion_passes" =>
    \A z \in VALID_ZONES :
      response.body.zones[z].scan_count_last_5min =
        Cardinality(EventsInWindow(response.rate_read, response.surge_ids,
                                   response.cutoff_at, z))

\* C17: the two passes of one compute read the same history of every token
\* they enumerate.
C17_ConsistentRead ==
  response.op = "congestion_passes" =>
    \A id \in response.surge_ids :
      response.dwell_read[Tok(id)] = response.rate_read[Tok(id)]

\* a stored entry that is a JSON object with a zone and an ISO timestamp
WellFormed(raw) ==
  /\ IsJson(raw)
  /\ DOMAIN json_loads(raw) = {"zone", "timestamp"}
  /\ IsIso(json_loads(raw).timestamp)

\* the store without its corrupt entries
Cleaned(lists) == [s \in DOMAIN lists |-> SelectSeq(lists[s], WellFormed)]

\* C18: a compute over a store that holds corrupt entries completes, and its
\* result is the result over the store without them.
C18_MalformedRecords ==
  response.op \in {"congestion", "congestion_error"} =>
    /\ response.op = "congestion"
    /\ VALID_ZONES \subseteq DOMAIN response.body.zones
    /\ response.body = get_zone_congestion(surge_key, Cleaned(scans), response.at)

\* C19: when every scan runs to completion on its own, every history holds
\* at most one event, and every compute reports an average dwell of 0, a
\* score of 0 and the level LOW for every zone.
C19_SingleEventHistories ==
  /\ \A s \in SurgeIds : Len(scans[s]) <= 1
  /\ response.op = "congestion" =>
       \A z \in DOMAIN response.body.zones :
         /\ response.body.zones[z].avg_dwell_time_seconds = 0
         /\ response.body.zones[z].congestion_score = 0
         /\ response.body.zones[z].congestion_level = "LOW"

\* a compute that follows an issue and two scan requests and counts a recorded scan
C19_Witness ==
  /\ response.op = "congestion"
  /\ nops = 4
  /\ \E z \in VALID_ZONES : response.body.zones[z].scan_count_last_5min = 1
  /\ \E t \in TokenIds :
       /\ Len(scans[Tok(t)]) = 1
       /\ fromisoformat(json_loads(scans[Tok(t)][1]).timestamp) > surge_store[t].created_at
       /\ \A u \in TokenIds \ {t} : surge_key[u] = NoKey

\* C20: an event is pushed on the list of a token only while the token's key
\* is alive: no step leaves a token whose key has expired with a new entry.
C20_NoWriteAfterExpiry ==
  [][\A t \in TokenIds :
       (scans'[Tok(t)] # scans[Tok(t)] /\ scans'[Tok(t)] # <<>>)
         => KeyAlive(surge_key[t], now)]_vars

====
